---- MODULE Spec2Model ----
(***************************************************************************)
(* A model of tillhub-serialio: the wire format (Message), the incremental *)
(* stream parser (DataParser), the transaction table (TransactionHolder)   *)
(* and the send/receive engine (SerialIO).                                 *)
(*                                                                         *)
(* Buffers are sequences of bytes (0..255); offsets are 0-based as in the  *)
(* source and converted to TLA+'s 1-based sequences inside the helpers.    *)
(***************************************************************************)
EXTENDS Integers, Sequences, FiniteSets, TLC

(***************************************************************************)
(* Bounds of the model.                                                    *)
(***************************************************************************)
\* longest payload of the exhaustively enumerated single frames
MaxPayloadLen == 2
\* most segments (frames, partial frames, garbage) in one input stream
MaxSegs == 3

(***************************************************************************)
(* Message: wire format constants.                                         *)
(***************************************************************************)
TYPE_REQUEST == 0
TYPE_PING == 1
TYPE_REPLY == 254
TYPE_ERROR == 255

META_OFFSET_START == 0
META_OFFSET_LENGTH == 4
META_OFFSET_ID == 8
META_OFFSET_TYPE == 10
META_OFFSET_DATA == 11

\* startSequence.writeUInt32BE(0xf000000f, 0)
START_SEQUENCE == <<240, 0, 0, 15>>

(***************************************************************************)
(* Buffer primitives (node's Buffer).                                      *)
(***************************************************************************)
Min(a, b) == IF a < b THEN a ELSE b
Max(a, b) == IF a > b THEN a ELSE b

\* buf.slice(start, end): negative offsets count from the end, both clamped
slice(buf, start, end) ==
  LET n == Len(buf)
      s == IF start < 0 THEN Max(n + start, 0) ELSE Min(start, n)
      e == IF end < 0 THEN Max(n + end, 0) ELSE Min(end, n)
  IN SubSeq(buf, s + 1, e)

\* buf.slice(start)
sliceFrom(buf, start) == slice(buf, start, Len(buf))

readUInt8(buf, off) == buf[off + 1]

readUInt16BE(buf, off) == buf[off + 1] * 256 + buf[off + 2]

readUInt32BE(buf, off) ==
  buf[off + 1] * 16777216 + buf[off + 2] * 65536 + buf[off + 3] * 256 + buf[off + 4]

\* n < readUInt32BE(buf, off) + k, computed on the two 16-bit halves so that a
\* LENGTH field of 2^31 and more stays within TLC's 32-bit integers
lessThanUInt32BEPlus(n, buf, off, k) ==
  (n - k - readUInt16BE(buf, off + 2)) \div 65536 < readUInt16BE(buf, off)

writeUInt8(v) == <<v % 256>>

writeUInt16BE(v) == <<(v \div 256) % 256, v % 256>>

writeUInt32BE(v) ==
  <<(v \div 16777216) % 256, (v \div 65536) % 256, (v \div 256) % 256, v % 256>>

\* buf.indexOf(START_SEQUENCE, from): offset of the first occurrence at or
\* after from, -1 when there is none
startsAt(buf, i) ==
  \A k \in 1..Len(START_SEQUENCE) : buf[i + k] = START_SEQUENCE[k]

RECURSIVE indexOf(_, _)
indexOf(buf, from) ==
  IF from + Len(START_SEQUENCE) > Len(buf) THEN -1
  ELSE IF startsAt(buf, from) THEN from
  ELSE indexOf(buf, from + 1)

(***************************************************************************)
(* Message: a view over a raw buffer.                                      *)
(***************************************************************************)
MsgLength(raw) == readUInt32BE(raw, META_OFFSET_LENGTH)
MsgId(raw) == readUInt16BE(raw, META_OFFSET_ID)
MsgType(raw) == readUInt8(raw, META_OFFSET_TYPE)
MsgRawData(raw) == sliceFrom(raw, META_OFFSET_DATA)

\* Message.create(data, type, id): the raw buffer of the new message
createIdLittleEndian(data, type, id) ==
  START_SEQUENCE \o writeUInt32BE(Len(data)) \o <<id % 256, (id \div 256) % 256>>
    \o writeUInt8(type) \o data

create(data, type, id) ==
  START_SEQUENCE \o writeUInt32BE(Len(data)) \o writeUInt16BE(id)
    \o writeUInt8(type) \o data

(***************************************************************************)
(* State.                                                                  *)
(***************************************************************************)
VARIABLES
  \* DataParser
  buffer,          \* DataParser._buffer (<<>> while still undefined)
  pendingMessage,  \* DataParser._pendingMessage
  onMessageHandler, \* DataParser._onMessageHandler: what the handler does when called
  parsing,         \* a parseData call stands at the head of its while loop
  \* the byte stream fed to a parser under test, and what it has delivered
  segs,            \* how the stream was built: frames, partial frames, garbage
  input,           \* the stream's bytes
  pos,             \* bytes of the stream handed to parseData so far
  singleCall,      \* everything so far was handed over in at most one call
  consumed,        \* bytes already sliced off the front of the buffer
  delivered,       \* Messages passed to the onMessage handler, in order
  thrown,          \* calls of parseData that threw
  \* Message
  nextIdCounter,   \* Message._id
  allocated,       \* how many ids Message.nextId has returned so far
  \* TransactionHolder and the promises handed out by send
  txs,             \* every Transaction made by send, in the order of the calls
  transactions,    \* TransactionHolder._transactions: id -> index into txs
  \* SerialIO
  handlerSet,      \* _handlers.message is defined
  handling,        \* REQUESTs whose user handler has not returned yet
  handled,         \* what the user handler did for the REQUESTs it has finished
  queue,           \* _queue: items waiting behind the one being written
  writing,         \* the item being written, its offset and what it waits for
  wire,            \* chunks handed to transport.write, in order
  inbox,           \* Messages the parser has delivered to _handleMessage, in order
  failures,        \* callbacks of the transport that reported an error so far
  \* SerialIO: the port and its supervision
  closing,         \* SerialIO.closing
  reopenAttempts,  \* SerialIO.reopenAttempts
  port,            \* _port: undefined, or the SerialPort and what it is doing
  device,          \* whether the device behind the path can be opened
  taps,            \* which of _handlers.open and _handlers.close are set
  tapCalls,        \* how often each of them has been called
  portEvents,      \* how often the port has emitted 'open' and 'close'
  timers,          \* reopen attempts scheduled by _closeHandler's connect()
  calls,           \* the promises returned by the user's open() and close() calls
  portOp,          \* whose callback the port holds: a call, or the reopen loop
  unplugs          \* how often the device has gone away

parserVars == <<buffer, pendingMessage, onMessageHandler, parsing>>
streamVars == <<segs, input, pos, singleCall, consumed, delivered, thrown>>
engineVars == <<nextIdCounter, allocated, txs, transactions, handlerSet, handling, handled, queue,
                writing, wire, inbox, failures>>
portVars == <<closing, reopenAttempts, port, device, taps, tapCalls, portEvents,
              timers, calls, portOp, unplugs>>
vars == <<buffer, pendingMessage, onMessageHandler, parsing, segs, input, pos, singleCall, consumed,
          delivered, thrown,
          nextIdCounter, allocated, txs, transactions, handlerSet, handling, handled, queue,
          writing, wire, inbox, failures,
          closing, reopenAttempts, port, device, taps, tapCalls, portEvents,
          timers, calls, portOp, unplugs>>

(***************************************************************************)
(* DataParser.parseData: the decisions of one loop iteration.              *)
(***************************************************************************)
\* const newMsgIndex = this._buffer.indexOf(Message.START_SEQUENCE)
newMsgIndexAssumedAtHead(buf) == 0

newMsgIndexOf(buf) == indexOf(buf, 0)

\* nothing found, everything dropped
keptNothing(buf) == <<>>

\* nothing found: this._buffer.slice(1 - Message.START_SEQUENCE.length)
keptTail(buf) == sliceFrom(buf, 1 - Len(START_SEQUENCE))

\* a message start inside the expected message:
\* nextMsgIndex > -1 && nextMsgIndex < _rawSize
pendingNeverAborted(buf) == FALSE

pendingAborted(buf) ==
  LET nextMsgIndex == indexOf(buf, 4) IN
  /\ nextMsgIndex > -1
  /\ lessThanUInt32BEPlus(nextMsgIndex, buf, META_OFFSET_LENGTH, META_OFFSET_DATA)

\* this._buffer.length < _rawSize
messageIncompleteOffByOne(buf) ==
  lessThanUInt32BEPlus(Len(buf), buf, META_OFFSET_LENGTH, META_OFFSET_DATA + 1)

messageIncomplete(buf) ==
  lessThanUInt32BEPlus(Len(buf), buf, META_OFFSET_LENGTH, META_OFFSET_DATA)

\* this._buffer.slice(_rawSize) after a message has been delivered
restAfterMessageDropped(buf, rawSize) == <<>>

restAfterMessage(buf, rawSize) == sliceFrom(buf, rawSize)

(***************************************************************************)
(* DataParser.parseData: the loop over the buffer, after the new chunk     *)
(* has been appended.  out collects the Messages handed to                 *)
(* _callOnMessageHandler, each with the stream offset it was found at.     *)
(***************************************************************************)
\* what the handler registered with onMessage does when it is called: it
\* returns, it throws an Error, or it throws undefined or null
HandlerKinds == {"returns", "throwsError", "throwsNothing"}

\* _callOnMessageHandler(msg): TRUE when an exception leaves it.  The catch
\* block logs e.message || e, and reading .message of undefined or null
\* throws a TypeError out of the catch block
callOnMessageHandler(handler) == handler = "throwsNothing"

\* a pending message that is kept whole when a new one starts inside it
restAfterAbortKept(buf, nextMsgIndex) == buf

\* new message received before old one completed:
\* this._buffer.slice(nextMsgIndex)
restAfterAbort(buf, nextMsgIndex) == sliceFrom(buf, nextMsgIndex)

\* one evaluation of the loop condition and, when it holds, one iteration of
\* the loop body: exit is TRUE when the loop is left (condition false, break,
\* or an exception)
loopStep(handler, buf, pending, off, out) ==
  IF ~(Len(buf) >= META_OFFSET_DATA)
  THEN [buffer |-> buf, pendingMessage |-> pending, consumed |-> off, out |-> out,
        thrown |-> FALSE, exit |-> TRUE]
  ELSE IF ~pending
  THEN LET newMsgIndex == newMsgIndexOf(buf) IN
       IF newMsgIndex = -1
       THEN \* nothing found: keep the last <start_seq> - 1 bytes
            [buffer |-> keptTail(buf), pendingMessage |-> pending,
             consumed |-> off + Len(buf) - Len(keptTail(buf)), out |-> out,
             thrown |-> FALSE, exit |-> TRUE]
       ELSE [buffer |-> sliceFrom(buf, newMsgIndex), pendingMessage |-> TRUE,
             consumed |-> off + newMsgIndex, out |-> out, thrown |-> FALSE,
             exit |-> FALSE]
  ELSE IF pendingAborted(buf)
  THEN LET nextMsgIndex == indexOf(buf, 4) IN
       [buffer |-> restAfterAbort(buf, nextMsgIndex), pendingMessage |-> pending,
        consumed |-> off + nextMsgIndex, out |-> out, thrown |-> FALSE, exit |-> FALSE]
  ELSE IF messageIncomplete(buf)
  THEN [buffer |-> buf, pendingMessage |-> pending, consumed |-> off, out |-> out,
        thrown |-> FALSE, exit |-> TRUE]
  ELSE LET mLength == readUInt32BE(buf, META_OFFSET_LENGTH)
           rawSize == mLength + META_OFFSET_DATA
           got == Append(out, [raw |-> slice(buf, 0, rawSize), at |-> off])
       IN IF callOnMessageHandler(handler)
          THEN \* the exception leaves parseData: the buffer is not sliced
               [buffer |-> buf, pendingMessage |-> pending, consumed |-> off, out |-> got,
                thrown |-> TRUE, exit |-> TRUE]
          ELSE [buffer |-> restAfterMessage(buf, rawSize), pendingMessage |-> FALSE,
                consumed |-> off + rawSize, out |-> got, thrown |-> FALSE,
                exit |-> FALSE]

RECURSIVE parseLoopWith(_, _, _, _, _)
parseLoopWith(handler, buf, pending, off, out) ==
  LET r == loopStep(handler, buf, pending, off, out) IN
  IF r.exit
  THEN [buffer |-> r.buffer, pendingMessage |-> r.pendingMessage, consumed |-> r.consumed,
        out |-> r.out, thrown |-> r.thrown]
  ELSE parseLoopWith(handler, r.buffer, r.pendingMessage, r.consumed, r.out)

\* the loop of the parser whose handler is the registered one
parseLoop(buf, pending, off, out) == parseLoopWith(onMessageHandler, buf, pending, off, out)

\* parseData(data) on a parser in state (buf, pending)
parseDataWith(handler, buf, pending, off, data) ==
  parseLoopWith(handler, buf \o data, pending, off, <<>>)
parseData(buf, pending, off, data) == parseLoop(buf \o data, pending, off, <<>>)

(***************************************************************************)
(* Text: strings are sequences of code points.  Buffer.from(string) encodes *)
(* UTF-8, buffer.toString() decodes it (code points below 0x800 here).     *)
(***************************************************************************)
\* the UTF-8 bytes of one code point
encodeCodePoint(c) ==
  IF c < 128 THEN <<c>> ELSE <<192 + (c \div 64), 128 + (c % 64)>>

\* the code points are encoded one by one; the halving keeps the recursion flat
RECURSIVE bufferFrom(_)
bufferFrom(str) ==
  IF str = <<>> THEN <<>>
  ELSE IF Len(str) = 1 THEN encodeCodePoint(str[1])
  ELSE LET h == Len(str) \div 2 IN
       bufferFrom(SubSeq(str, 1, h)) \o bufferFrom(SubSeq(str, h + 1, Len(str)))

RECURSIVE toString(_)
toString(bytes) ==
  IF bytes = <<>> THEN <<>>
  ELSE LET b == Head(bytes) IN
       IF b < 128 THEN <<b>> \o toString(Tail(bytes))
       ELSE IF /\ b >= 194 /\ b < 224 /\ Len(bytes) >= 2
               /\ bytes[2] >= 128 /\ bytes[2] < 192
            THEN <<(b - 192) * 64 + (bytes[2] - 128)>> \o toString(Tail(Tail(bytes)))
            ELSE <<65533>> \o toString(Tail(bytes))

\* msg.data
MsgData(raw) == toString(MsgRawData(raw))

(***************************************************************************)
(* Message.nextId                                                          *)
(***************************************************************************)
\* a counter that never wraps
nextIdUnbounded(id) == id + 1

nextIdAfter(id) == (id + 1) % 65536

(***************************************************************************)
(* TransactionHolder.  A Transaction is txs[t]; what is signalled to it    *)
(* (calls of its resolve and reject) is kept in txs[t].signals, the first  *)
(* of which settles the promise that send returned.                        *)
(***************************************************************************)
TIMEOUT == 5000
PING_TIMEOUT == 500

\* 'timeout reached'
TimeoutReached == <<116, 105, 109, 101, 111, 117, 116, 32, 114, 101, 97, 99, 104, 101, 100>>
\* the transport's errors
WriteFailed == <<119>>
DrainFailed == <<100>>

NoRaw == <<>>
Resolved(by, src, raw) ==
  [kind |-> "resolve", by |-> by, src |-> src, name |-> "", message |-> <<>>, raw |-> raw]
Rejected(by, src, name, message) ==
  [kind |-> "reject", by |-> by, src |-> src, name |-> name, message |-> message,
   raw |-> NoRaw]

\* the engine's mutable parts, for the operators below
EngineState ==
  [txs |-> txs, transactions |-> transactions, queue |-> queue, writing |-> writing,
   wire |-> wire, inbox |-> inbox]

Idle == [tx |-> 0, from |-> 0, phase |-> "idle"]

\* transaction.resolve(msg) / transaction.reject(error)
signal(st, t, sig) == [st EXCEPT !.txs[t].signals = Append(@, sig)]

\* an add that starts no timer
addWithoutTimer(st, tx) ==
  LET t == Len(st.txs) + 1 IN
  [st EXCEPT !.txs = Append(@, tx),
             !.transactions = [i \in DOMAIN @ \cup {tx.id} |->
                                 IF i = tx.id THEN t ELSE @[i]]]

\* add(transaction, timeout): start the timer, this._transactions[id] = transaction
add(st, tx) ==
  LET t == Len(st.txs) + 1 IN
  [st EXCEPT !.txs = Append(@, [tx EXCEPT !.timer = "armed"]),
             !.transactions = [i \in DOMAIN @ \cup {tx.id} |->
                                 IF i = tx.id THEN t ELSE @[i]]]

\* get(id): the index of the transaction, 0 for undefined
get(st, id) == IF id \in DOMAIN st.transactions THEN st.transactions[id] ELSE 0

\* a remove that leaves the timer running
removeKeepsTimer(st, id) ==
  LET t == get(st, id) IN
  IF t = 0 THEN st
  ELSE [st EXCEPT !.transactions = [i \in DOMAIN @ \ {id} |-> @[i]]]

\* remove(id): clearTimeout, this._transactions[id] = undefined
remove(st, id) ==
  LET t == get(st, id) IN
  IF t = 0 THEN st
  ELSE [st EXCEPT !.txs[t].timer = IF @ = "armed" THEN "cleared" ELSE @,
                  !.transactions = [i \in DOMAIN @ \ {id} |-> @[i]]]

\* resolve(id, msg)
resolve(st, id, sig) ==
  LET t == get(st, id) IN IF t = 0 THEN st ELSE signal(remove(st, id), t, sig)

\* reject(id, error)
reject(st, id, sig) ==
  LET t == get(st, id) IN IF t = 0 THEN st ELSE signal(remove(st, id), t, sig)

(***************************************************************************)
(* SerialIO: sending.                                                      *)
(***************************************************************************)
CHUNK_SIZE == 512

NewTx(api, raw, timeout, re, seen) ==
  [api |-> api, id |-> MsgId(raw), type |-> MsgType(raw), raw |-> raw,
   timeout |-> timeout, re |-> re, seen |-> seen, timer |-> "none",
   write |-> "queued", signals |-> <<>>]

\* a part size that ignores how much of the buffer is left
partSizeWholeChunk(st) == CHUNK_SIZE

\* _sendInParts(buffer, from): the chunk written next
partSize(st) == Min(CHUNK_SIZE, Len(st.txs[st.writing.tx].raw) - st.writing.from)

\* a queue that starts an item while another one is being written
dequeueWhileWriting(st) ==
  IF st.queue = <<>> THEN st
  ELSE LET t == Head(st.queue)
           started == [st EXCEPT !.queue = Tail(@),
                                 !.txs[t].write = "started",
                                 !.writing = [tx |-> t, from |-> 0, phase |-> "write"]]
       IN [started EXCEPT !.wire = Append(@, [tx |-> t, from |-> 0, len |-> partSize(started)])]

\* the queue starts its next item: _sendInParts(msg.raw) calls transport.write
\* with the first chunk
dequeue(st) ==
  IF st.writing.tx # 0 \/ st.queue = <<>> THEN st
  ELSE LET t == Head(st.queue)
           started == [st EXCEPT !.queue = Tail(@),
                                 !.txs[t].write = "started",
                                 !.writing = [tx |-> t, from |-> 0, phase |-> "write"]]
       IN [started EXCEPT !.wire = Append(@, [tx |-> t, from |-> 0, len |-> partSize(started)])]

\* send(msg, timeout): register the transaction, queue the write
send(st, api, raw, timeout, re) ==
  LET added == add(st, NewTx(api, raw, timeout, re, Len(st.inbox))) IN
  dequeue([added EXCEPT !.queue = Append(@, Len(added.txs))])

\* an engine that answers with an ERROR when the write of a REPLY has failed
itemDoneAnswersFailure(st, t, err) ==
  LET tx == st.txs[t]
      freed == [st EXCEPT !.writing = Idle,
                          !.txs[t].write = IF err # <<>> THEN "failed" ELSE "done"]
      settled ==
        IF err # <<>>
        THEN reject(freed, tx.id, Rejected("transport", t, "Error", err))
        ELSE IF tx.type = TYPE_REPLY
             THEN resolve(freed, tx.id, Resolved("written", t, tx.raw))
             ELSE freed
  IN IF err # <<>> /\ tx.type = TYPE_REPLY
     THEN send(settled, "sendErrorReply", create(err, TYPE_ERROR, tx.id), TIMEOUT, tx.re)
     ELSE dequeue(settled)

\* the queue item of transaction t is done: the then-handlers of send, and the
\* next item starts
itemDone(st, t, err) ==
  LET tx == st.txs[t]
      freed == [st EXCEPT !.writing = Idle,
                          !.txs[t].write = IF err # <<>> THEN "failed" ELSE "done"]
      settled ==
        IF err # <<>>
        THEN reject(freed, tx.id, Rejected("transport", t, "Error", err))
        ELSE IF tx.type = TYPE_REPLY
             THEN resolve(freed, tx.id, Resolved("written", t, tx.raw))
             ELSE freed
  IN dequeue(settled)

(***************************************************************************)
(* The engine's events.                                                    *)
(***************************************************************************)
\* bounds: calls of sendRequest and ping by the user, frames sent by the peer,
\* callbacks of the transport that report an error
MaxSends == 1
MaxInbound == 2
MaxFailures == 1

\* what the user sends, what the user's handler returns or throws
\* a request whose frame is one byte longer than a chunk
LongText == [i \in 1..(CHUNK_SIZE - META_OFFSET_DATA + 1) |-> 113]
RequestTexts == {<<113>>, LongText}
HandlerResults == {<<>>, <<114>>}
\* an Error with a message, and a value that has none (a string, undefined)
HandlerErrors == {[message |-> TRUE, text |-> <<101>>], [message |-> FALSE, text |-> <<>>]}

\* what the peer sends: whole frames, one per data event
UNKNOWN_TYPE == 119
PeerIds == {0, 1}
PeerFrames ==
  {create(<<>>, t, i) : t \in {TYPE_REQUEST, TYPE_PING, UNKNOWN_TYPE}, i \in PeerIds}
    \cup {create(<<120>>, t, i) : t \in {TYPE_REPLY, TYPE_ERROR}, i \in PeerIds}


EngineInit ==
  /\ nextIdCounter = 0
  /\ allocated = 0
  /\ txs = <<>>
  /\ transactions = <<>>
  /\ handlerSet = FALSE
  /\ handling = <<>>
  /\ handled = <<>>
  /\ queue = <<>>
  /\ writing = Idle
  /\ wire = <<>>
  /\ inbox = <<>>
  /\ failures = 0

\* the engine after its construction, before the port has been touched
NoCount == [open |-> 0, close |-> 0]
PortFresh ==
  /\ closing = FALSE
  /\ reopenAttempts = 0
  /\ port = "undefined"
  /\ taps = [open |-> FALSE, close |-> FALSE]
  /\ tapCalls = NoCount
  /\ portEvents = NoCount
  /\ timers = 0
  /\ calls = <<>>
  /\ portOp = 0
  /\ unplugs = 0

PortInit == PortFresh /\ device = "present"

Init ==
  /\ buffer = <<>>
  /\ pendingMessage = FALSE
  /\ onMessageHandler = "returns"
  /\ parsing = FALSE
  /\ thrown = 0
  /\ segs = <<>>
  /\ input = <<>>
  /\ pos = 0
  /\ singleCall = TRUE
  /\ consumed = 0
  /\ delivered = <<>>
  /\ EngineInit
  /\ PortInit

Commit(st) ==
  /\ txs' = st.txs
  /\ transactions' = st.transactions
  /\ queue' = st.queue
  /\ writing' = st.writing
  /\ wire' = st.wire
  /\ inbox' = st.inbox

UserSends == Cardinality({t \in 1..Len(txs) : txs[t].re = 0})

\* onMessage(handler)
OnMessage ==
  /\ ~handlerSet
  /\ handlerSet' = TRUE
  /\ UNCHANGED <<nextIdCounter, allocated, txs, transactions, handling, handled, queue, writing, wire, inbox, failures>>
  /\ UNCHANGED <<parserVars, streamVars, portVars>>

\* sendRequest(data), for a user who calls it and ping at most limit times
sendRequest(limit) ==
  /\ UserSends < limit
  /\ \E data \in RequestTexts :
       LET raw == create(bufferFrom(data), TYPE_REQUEST, nextIdCounter) IN
       /\ Commit(send(EngineState, "sendRequest", raw, TIMEOUT, 0))
  /\ nextIdCounter' = nextIdAfter(nextIdCounter)
  /\ allocated' = allocated + 1
  /\ UNCHANGED <<handlerSet, handling, handled, failures>>
  /\ UNCHANGED <<parserVars, streamVars, portVars>>

SendRequest == sendRequest(MaxSends)

\* ping()
Ping ==
  /\ UserSends < MaxSends
  /\ LET raw == create(bufferFrom(<<>>), TYPE_PING, nextIdCounter) IN
       /\ Commit(send(EngineState, "ping", raw, PING_TIMEOUT, 0))
  /\ nextIdCounter' = nextIdAfter(nextIdCounter)
  /\ allocated' = allocated + 1
  /\ UNCHANGED <<handlerSet, handling, handled, failures>>
  /\ UNCHANGED <<parserVars, streamVars, portVars>>

\* a reply that does not carry the id it was given
sendReplyToZero(st, data, id, re) ==
  send(st, "sendReply", create(bufferFrom(data), TYPE_REPLY, 0), TIMEOUT, re)

\* sendReply(data, id) and sendErrorReply(error, id), called by _handleMessage
sendReply(st, data, id, re) ==
  send(st, "sendReply", create(bufferFrom(data), TYPE_REPLY, id), TIMEOUT, re)
sendErrorReply(st, message, id, re) ==
  send(st, "sendErrorReply", create(bufferFrom(message), TYPE_ERROR, id), TIMEOUT, re)

\* a dispatch that answers what it does not know like a PING
handleMessageAnswersUnknown(st, raw, re) ==
  CASE MsgType(raw) = TYPE_REPLY ->
         resolve(st, MsgId(raw), Resolved("reply", 0, raw))
    [] MsgType(raw) = TYPE_ERROR ->
         reject(st, MsgId(raw), Rejected("error", 0, "Error", MsgData(raw)))
    [] MsgType(raw) = TYPE_REQUEST -> st
    [] OTHER -> sendReply(st, <<>>, MsgId(raw), re)

\* _handleMessage(msg), up to the first await
handleMessage(st, raw, re) ==
  CASE MsgType(raw) = TYPE_PING -> sendReply(st, <<>>, MsgId(raw), re)
    [] MsgType(raw) = TYPE_REPLY ->
         resolve(st, MsgId(raw), Resolved("reply", 0, raw))
    [] MsgType(raw) = TYPE_ERROR ->
         reject(st, MsgId(raw), Rejected("error", 0, "Error", MsgData(raw)))
    [] OTHER -> st

\* the transport's data event with one frame of the peer: parseData, and
\* _handleMessage for the Message it delivers
Data ==
  /\ Len(inbox) < MaxInbound
  /\ \E frame \in PeerFrames :
       LET r == parseData(buffer, pendingMessage, 0, frame)
           msg == r.out[1].raw
           re == Len(inbox) + 1
       IN
       /\ Len(r.out) = 1
       /\ buffer' = r.buffer
       /\ pendingMessage' = r.pendingMessage
       /\ UNCHANGED <<onMessageHandler, parsing>>
       /\ Commit(handleMessage([EngineState EXCEPT !.inbox = Append(@, msg)], msg, re))
       /\ handling' = IF MsgType(msg) = TYPE_REQUEST /\ handlerSet
                      THEN Append(handling, [id |-> MsgId(msg), re |-> re])
                      ELSE handling
  /\ UNCHANGED <<nextIdCounter, allocated, handlerSet, handled, failures>>
  /\ UNCHANGED <<streamVars, portVars>>

Without(seq, i) == SubSeq(seq, 1, i - 1) \o SubSeq(seq, i + 1, Len(seq))

Handled(h, kind, message, text) ==
  Append(handled, [re |-> handling[h].re, id |-> handling[h].id, kind |-> kind,
                   message |-> message, text |-> text])

\* the user's handler returns a string (at once or through its promise)
HandlerReturns ==
  \E h \in 1..Len(handling), result \in HandlerResults :
    /\ Commit(sendReply(EngineState, result, handling[h].id, handling[h].re))
    /\ handled' = Handled(h, "returned", TRUE, result)
    /\ handling' = Without(handling, h)
    /\ UNCHANGED <<nextIdCounter, allocated, handlerSet, failures>>
    /\ UNCHANGED <<parserVars, streamVars, portVars>>

\* the user's handler throws (or its promise rejects) the value e:
\* sendErrorReply(e, msg.id) makes the message from e.message, and fails in
\* Message.create, caught and logged, when e has no message
HandlerThrows ==
  \E h \in 1..Len(handling), e \in HandlerErrors :
    /\ IF e.message
       THEN Commit(sendErrorReply(EngineState, e.text, handling[h].id, handling[h].re))
       ELSE UNCHANGED <<txs, transactions, queue, writing, wire, inbox>>
    /\ handled' = Handled(h, "threw", e.message, e.text)
    /\ handling' = Without(handling, h)
    /\ UNCHANGED <<nextIdCounter, allocated, handlerSet, failures>>
    /\ UNCHANGED <<parserVars, streamVars, portVars>>

\* transport.write calls back without an error: transport.drain is called
WriteOk ==
  /\ writing.phase = "write"
  /\ writing' = [writing EXCEPT !.phase = "drain"]
  /\ UNCHANGED <<nextIdCounter, allocated, txs, transactions, handlerSet, handling, handled, queue, wire, inbox, failures>>
  /\ UNCHANGED <<parserVars, streamVars, portVars>>

\* transport.write calls back with an error: _sendInParts throws
WriteError ==
  /\ writing.phase = "write"
  /\ failures < MaxFailures
  /\ failures' = failures + 1
  /\ Commit(itemDone(EngineState, writing.tx, WriteFailed))
  /\ UNCHANGED <<nextIdCounter, allocated, handlerSet, handling, handled>>
  /\ UNCHANGED <<parserVars, streamVars, portVars>>

\* transport.drain calls back without an error: the next chunk, or the item
\* is done
DrainOk ==
  /\ writing.phase = "drain"
  /\ LET t == writing.tx
         next == writing.from + partSize(EngineState)
     IN IF Len(txs[t].raw) > next
        THEN /\ writing' = [tx |-> t, from |-> next, phase |-> "write"]
             /\ wire' = Append(wire, [tx |-> t, from |-> next,
                                      len |-> Min(CHUNK_SIZE, Len(txs[t].raw) - next)])
             /\ UNCHANGED <<txs, transactions, queue, inbox>>
        ELSE Commit(itemDone(EngineState, t, <<>>))
  /\ UNCHANGED <<nextIdCounter, allocated, handlerSet, handling, handled, failures>>
  /\ UNCHANGED <<parserVars, streamVars, portVars>>

\* transport.drain calls back with an error
DrainError ==
  /\ writing.phase = "drain"
  /\ failures < MaxFailures
  /\ failures' = failures + 1
  /\ Commit(itemDone(EngineState, writing.tx, DrainFailed))
  /\ UNCHANGED <<nextIdCounter, allocated, handlerSet, handling, handled>>
  /\ UNCHANGED <<parserVars, streamVars, portVars>>

\* the timer of transaction t fires: transaction.reject(new TimeoutError(...))
TimerFires ==
  \E t \in 1..Len(txs) :
    /\ txs[t].timer = "armed"
    /\ txs' = [txs EXCEPT ![t].timer = "fired",
                          ![t].signals = Append(@, Rejected("timeout", t, "TimeoutError",
                                                            TimeoutReached))]
    /\ UNCHANGED <<nextIdCounter, allocated, transactions, handlerSet, handling, handled, queue, writing,
                   wire, inbox, failures>>
    /\ UNCHANGED <<parserVars, streamVars, portVars>>

Next ==
  \/ OnMessage
  \/ SendRequest
  \/ Ping
  \/ Data
  \/ HandlerReturns
  \/ HandlerThrows
  \/ WriteOk
  \/ WriteError
  \/ DrainOk
  \/ DrainError
  \/ TimerFires

Spec == Init /\ [][Next]_vars

(***************************************************************************)
(* SerialIO: opening, closing and the reopen loop.  The SerialPort is the   *)
(* transport: open(cb) and close(cb) call back once, with an error when the *)
(* port is in no state to do what was asked or the device cannot be        *)
(* opened; 'open' and 'close' are emitted before the callback is called.   *)
(***************************************************************************)
\* bounds: calls of open() and close() by the user, the value up to which
\* reopenAttempts (a number that is only logged) is told apart, losses of the
\* device
MaxCalls == 3
MaxAttempts == 2
MaxUnplugs == 1

REOPEN_DELAY == 1000
ReopenLoop == 0 - 1

portEnv == <<device, unplugs>>
portTaps == <<taps, tapCalls, portEvents>>

\* isOpen()
isOpen == port = "open"

\* onOpen(handler)
OnOpen ==
  /\ ~taps.open
  /\ taps' = [taps EXCEPT !.open = TRUE]
  /\ UNCHANGED <<closing, reopenAttempts, port, tapCalls, portEvents, timers, calls, portOp>>
  /\ UNCHANGED <<parserVars, streamVars, engineVars, portEnv>>

\* onClose(handler)
OnClose ==
  /\ ~taps.close
  /\ taps' = [taps EXCEPT !.close = TRUE]
  /\ UNCHANGED <<closing, reopenAttempts, port, tapCalls, portEvents, timers, calls, portOp>>
  /\ UNCHANGED <<parserVars, streamVars, engineVars, portEnv>>

\* the promise of a call: kept for the user's calls only
Promised(op, by, state) ==
  IF by = "user" THEN Append(calls, [op |-> op, state |-> state]) ELSE calls
Holder(by) == IF by = "user" THEN Len(calls) + 1 ELSE ReopenLoop
Settled2(c, k, state) == IF k > 0 THEN [c EXCEPT ![k].state = state] ELSE c

\* the catch branch of a reopen attempt: connect() again
retryGivenUp(tm) == tm
retry(tm) == tm + 1

\* open(), called by the user or by a reopen attempt; tm: the timers left
open(by, tm) ==
  /\ closing' = FALSE
  /\ \/ \* preparePort throws: no port object, the promise rejects
        /\ port = "undefined" /\ device = "missing"
        /\ calls' = Promised("open", by, "rejected")
        /\ timers' = IF by = "user" THEN tm ELSE retry(tm)
        /\ UNCHANGED <<port, portOp>>
     \/ \* the port starts to open
        /\ port \in {"undefined", "closed"}
        /\ port' = "opening"
        /\ portOp' = Holder(by)
        /\ calls' = Promised("open", by, "pending")
        /\ timers' = tm
     \/ \* the port is open, opening or closing: it calls back with an error
        /\ port \in {"opening", "open", "closing"}
        /\ calls' = Promised("open", by, "rejected")
        /\ timers' = IF by = "user" THEN tm ELSE retry(tm)
        /\ UNCHANGED <<port, portOp>>

\* open() called by the user
Open ==
  /\ Len(calls) < MaxCalls
  /\ open("user", timers)
  /\ UNCHANGED <<reopenAttempts, portTaps>>
  /\ UNCHANGED <<parserVars, streamVars, engineVars, portEnv>>

\* close() called by the user
Close ==
  /\ Len(calls) < MaxCalls
  /\ closing' = TRUE
  /\ \/ \* this._port && ...: without a port object nothing is called
        /\ port = "undefined"
        /\ calls' = Promised("close", "user", "pending")
        /\ UNCHANGED <<port, portOp>>
     \/ /\ port = "open"
        /\ port' = "closing"
        /\ portOp' = Holder("user")
        /\ calls' = Promised("close", "user", "pending")
     \/ \* the port is not open: it calls back with an error
        /\ port \in {"closed", "opening", "closing"}
        /\ calls' = Promised("close", "user", "rejected")
        /\ UNCHANGED <<port, portOp>>
  /\ UNCHANGED <<reopenAttempts, timers, portTaps>>
  /\ UNCHANGED <<parserVars, streamVars, engineVars, portEnv>>

\* an 'open' that reaches nobody
openEventLost ==
  /\ portEvents' = portEvents
  /\ tapCalls' = tapCalls

\* the port emits 'open': the user's handler, if any
openEvent ==
  /\ portEvents' = [portEvents EXCEPT !.open = @ + 1]
  /\ tapCalls' = IF taps.open THEN [tapCalls EXCEPT !.open = @ + 1] ELSE tapCalls

\* _closeHandler(err)
closeHandlerAlwaysReopens ==
  /\ reopenAttempts' = 0
  /\ timers' = timers + 1

closeHandler ==
  IF closing
  THEN UNCHANGED <<reopenAttempts, timers>>
  ELSE /\ reopenAttempts' = 0
       /\ timers' = timers + 1

\* the port emits 'close': the user's handler, if any, then _closeHandler
closeEvent ==
  /\ portEvents' = [portEvents EXCEPT !.close = @ + 1]
  /\ tapCalls' = IF taps.close THEN [tapCalls EXCEPT !.close = @ + 1] ELSE tapCalls
  /\ closeHandler

\* the port has opened: 'open', then the callback of open
OpenSucceeds ==
  /\ port = "opening" /\ device = "present"
  /\ port' = "open"
  /\ openEvent
  /\ calls' = Settled2(calls, portOp, "resolved")
  /\ portOp' = 0
  /\ UNCHANGED <<closing, reopenAttempts, taps, timers>>
  /\ UNCHANGED <<parserVars, streamVars, engineVars, portEnv>>

\* the port could not be opened: the callback of open with an error
OpenFails ==
  /\ port = "opening" /\ device = "missing"
  /\ port' = "closed"
  /\ calls' = Settled2(calls, portOp, "rejected")
  /\ timers' = IF portOp = ReopenLoop THEN retry(timers) ELSE timers
  /\ portOp' = 0
  /\ UNCHANGED <<closing, reopenAttempts, portTaps>>
  /\ UNCHANGED <<parserVars, streamVars, engineVars, portEnv>>

\* the port has closed after close(): 'close', then the callback of close
CloseDone ==
  /\ port = "closing"
  /\ port' = "closed"
  /\ closeEvent
  /\ calls' = Settled2(calls, portOp, "resolved")
  /\ portOp' = 0
  /\ UNCHANGED <<closing, taps>>
  /\ UNCHANGED <<parserVars, streamVars, engineVars, portEnv>>

\* the device goes away; an open port closes and emits 'close'
Unplug ==
  /\ device = "present" /\ unplugs < MaxUnplugs
  /\ device' = "missing"
  /\ unplugs' = unplugs + 1
  /\ IF port = "open"
     THEN port' = "closed" /\ closeEvent
     ELSE UNCHANGED <<port, portEvents, tapCalls, reopenAttempts, timers>>
  /\ UNCHANGED <<closing, taps, calls, portOp>>
  /\ UNCHANGED <<parserVars, streamVars, engineVars>>

\* the device comes back
Plug ==
  /\ device = "missing"
  /\ device' = "present"
  /\ UNCHANGED <<closing, reopenAttempts, port, portTaps, timers, calls, portOp, unplugs>>
  /\ UNCHANGED <<parserVars, streamVars, engineVars>>

\* a timer of connect() fires after REOPEN_DELAY: reopenAttempts++, open()
ReopenAttempt ==
  /\ timers > 0
  /\ reopenAttempts' = Min(reopenAttempts + 1, MaxAttempts)
  /\ open("reopen", timers - 1)
  /\ UNCHANGED portTaps
  /\ UNCHANGED <<parserVars, streamVars, engineVars, portEnv>>

\* the engine on a path whose device exists or does not exist
PortSpecInit ==
  /\ buffer = <<>>
  /\ pendingMessage = FALSE
  /\ onMessageHandler = "returns"
  /\ parsing = FALSE
  /\ thrown = 0
  /\ segs = <<>>
  /\ input = <<>>
  /\ pos = 0
  /\ singleCall = TRUE
  /\ consumed = 0
  /\ delivered = <<>>
  /\ EngineInit
  /\ PortFresh
  /\ device \in {"present", "missing"}

PortNext ==
  \/ OnOpen
  \/ OnClose
  \/ Open
  \/ Close
  \/ OpenSucceeds
  \/ OpenFails
  \/ CloseDone
  \/ Unplug
  \/ Plug
  \/ ReopenAttempt

PortSpec == PortSpecInit /\ [][PortNext]_vars

\* timers fire and the port calls back
PortLiveSpec ==
  /\ PortSpecInit /\ [][PortNext]_vars
  /\ WF_vars(ReopenAttempt)
  /\ WF_vars(OpenSucceeds)
  /\ WF_vars(OpenFails)
  /\ WF_vars(CloseDone)

(***************************************************************************)
(* Byte streams for the parser: a stream is the concatenation of segments, *)
(* each a complete frame, the first cut bytes of a frame, or garbage.      *)
(***************************************************************************)
Frame(data, type, id) == [k |-> "frame", data |-> data, type |-> type, id |-> id, cut |-> 0]
Partial(data, type, id, cut) ==
  [k |-> "partial", data |-> data, type |-> type, id |-> id, cut |-> cut]
Garbage(bytes) == [k |-> "garbage", data |-> bytes, type |-> 0, id |-> 0, cut |-> 0]

SegBytes(seg) ==
  CASE seg.k = "frame" -> create(seg.data, seg.type, seg.id)
    [] seg.k = "partial" -> slice(create(seg.data, seg.type, seg.id), 0, seg.cut)
    [] OTHER -> seg.data

RECURSIVE Concat(_)
Concat(ss) == IF ss = <<>> THEN <<>> ELSE SegBytes(Head(ss)) \o Concat(Tail(ss))

\* stream offset at which segment i starts
SegStart(ss, i) == Len(Concat(SubSeq(ss, 1, i - 1)))

SeqsUpTo(S, n) == UNION {[1..m -> S] : m \in 0..n}

\* payload bytes: 0x00, 0x0f and 0xf0 are the bytes of START_SEQUENCE
PayloadBytes == {0, 15, 240, 109}
Payloads == SeqsUpTo(PayloadBytes, MaxPayloadLen) \cup {START_SEQUENCE}
Types == {TYPE_REQUEST, TYPE_PING, TYPE_REPLY, TYPE_ERROR}
Ids == {0, 258, 61440, 65535}

\* one frame, every payload, type and id of the sets above
SingleStreams == {<<Frame(d, t, i)>> : d \in Payloads, t \in Types, i \in Ids}

\* frames of the mixed streams: a plain one, one whose payload ends with the
\* first byte of START_SEQUENCE, one whose payload is START_SEQUENCE
PlainFrame == Frame(<<109>>, TYPE_REQUEST, 0)
TailFrame == Frame(<<240>>, TYPE_REPLY, 65535)
MagicFrame == Frame(START_SEQUENCE, TYPE_ERROR, 258)

\* segments of the mixed streams: the frames, garbage without any byte of
\* START_SEQUENCE, garbage that is the tail of one, and garbage that is a
\* whole frame of an unknown type
StreamSegs ==
  { PlainFrame,
    TailFrame,
    Garbage(<<204, 7>>),
    Garbage(<<0, 0, 15>>),
    Garbage(create(<<>>, 119, 9)) }
MixedStreams == SeqsUpTo(StreamSegs, MaxSegs)

\* a proper prefix of a frame (at least its start sequence) and then a frame
AbortedPartials ==
  UNION { {Partial(p[1], TYPE_REQUEST, p[2], cut) :
             cut \in Len(START_SEQUENCE)..(META_OFFSET_DATA + Len(p[1]) - 1)} :
          p \in {<<<<109, 49>>, 0>>, <<<<>>, 1>>, <<START_SEQUENCE, 2>>} }
AbortedStreams ==
  { <<p, f>> : p \in AbortedPartials, f \in {PlainFrame, TailFrame, MagicFrame} }

(***************************************************************************)
(* The parser under test: a fresh DataParser is fed one stream, cut into   *)
(* chunks in every possible way, one parseData call per chunk.             *)
(***************************************************************************)
\* a stream waits to be fed; the parser itself is set up by the caller
StreamStartOn(streams) ==
  /\ segs \in streams
  /\ input = Concat(segs)
  /\ pos = 0
  /\ singleCall = TRUE
  /\ consumed = 0
  /\ delivered = <<>>
  /\ thrown = 0
  /\ parsing = FALSE
  /\ EngineInit
  /\ PortInit

ParserStartOn(streams) ==
  /\ StreamStartOn(streams)
  /\ buffer = <<>>
  /\ pendingMessage = FALSE

ParserStart == ParserStartOn(SingleStreams \cup MixedStreams \cup AbortedStreams)

\* the parser of a test whose handler records the Messages and returns
ParserInit == ParserStart /\ onMessageHandler = "returns"

\* the transport's data event: parser.parseData(chunk), the handler recording
\* every Message it is called with
ParseChunk ==
  \E n \in 1..(Len(input) - pos) :
    LET r == parseData(buffer, pendingMessage, consumed, SubSeq(input, pos + 1, pos + n)) IN
    /\ buffer' = r.buffer
    /\ pendingMessage' = r.pendingMessage
    /\ consumed' = r.consumed
    /\ thrown' = IF r.thrown THEN thrown + 1 ELSE thrown
    /\ delivered' = delivered \o r.out
    /\ singleCall' = (pos = 0)
    /\ pos' = pos + n
    /\ UNCHANGED <<segs, input, onMessageHandler, parsing>>
    /\ UNCHANGED <<engineVars, portVars>>

ParserNext == ParseChunk

ParserSpec == ParserInit /\ [][ParserNext]_vars

\* the stream has been handed over completely
Fed == pos = Len(input)

\* what one parseData call with the whole stream delivers on a fresh parser
OneShot(bytes) == parseData(<<>>, FALSE, 0, bytes).out

Raws(out) == [i \in 1..Len(out) |-> out[i].raw]

\* offsets of the stream at which a START_SEQUENCE begins
StartsIn(bytes) ==
  {i \in 0..(Len(bytes) - Len(START_SEQUENCE)) : startsAt(bytes, i)}

FrameIdx(ss) == {i \in 1..Len(ss) : ss[i].k = "frame"}

(***************************************************************************)
(* Claims about Message.create and DataParser.parseData (ParserSpec).      *)
(***************************************************************************)
AllFrames(ss) == ss # <<>> /\ \A i \in 1..Len(ss) : ss[i].k = "frame"
FrameStarts(ss) == {SegStart(ss, i) : i \in FrameIdx(ss)}
FrameRaws(ss) == [i \in 1..Len(ss) |-> SegBytes(ss[i])]
\* START_SEQUENCE occurs in the stream only as the first four bytes of a frame
StartsOnlyAtFrames == StartsIn(input) = FrameStarts(segs)

IsSingleFrame == Len(segs) = 1 /\ segs[1].k = "frame"
RoundTripped ==
  /\ Len(delivered) = 1
  /\ MsgRawData(delivered[1].raw) = segs[1].data
  /\ MsgType(delivered[1].raw) = segs[1].type
  /\ MsgId(delivered[1].raw) = segs[1].id

\* C1 as stated: for every payload, type and id, one parseData call with the
\* raw buffer of Message.create(payload, type, id) on a fresh parser delivers
\* exactly one Message, with that payload, type and id.
C1_RoundTripEveryPayload ==
  (IsSingleFrame /\ Fed /\ singleCall) => RoundTripped

\* C1 amended: the round trip holds for every payload, type and id whose
\* frame holds no START_SEQUENCE after its first four bytes.
C1_RoundTrip ==
  (IsSingleFrame /\ Fed /\ singleCall /\ indexOf(input, 4) = -1) => RoundTripped

C1_Witness ==
  /\ IsSingleFrame /\ Fed /\ singleCall /\ indexOf(input, 4) = -1
  /\ segs[1].data = <<109, 240>> /\ segs[1].id = 258 /\ segs[1].type = TYPE_REPLY
  /\ RoundTripped

\* C2: however the stream is cut into chunks, one parseData call per chunk
\* delivers the same Messages as a single parseData call with the whole stream.
C2_ChunkingInvariance ==
  Fed => delivered = OneShot(input)

HasGarbage(ss) == \E i \in 1..Len(ss) : ss[i].k = "garbage"
FramesAndGarbage(ss) ==
  /\ FrameIdx(ss) # {}
  /\ HasGarbage(ss)
  /\ \A i \in 1..Len(ss) : ss[i].k \in {"frame", "garbage"}
FramesOnly(ss) == SelectSeq(ss, LAMBDA x : x.k = "frame")

\* C3 as stated: garbage bytes before, between or after the frames of a
\* parseData input do not change the Messages delivered.
C3_AnyGarbage ==
  (FramesAndGarbage(segs) /\ Fed /\ singleCall)
    => Raws(delivered) = Raws(OneShot(Concat(FramesOnly(segs))))

\* C3 amended: garbage does not change the Messages delivered when the stream
\* with the garbage holds START_SEQUENCE only as the first four bytes of each
\* frame.
C3_GarbageInsensitive ==
  (FramesAndGarbage(segs) /\ Fed /\ singleCall /\ StartsOnlyAtFrames)
    => Raws(delivered) = Raws(OneShot(Concat(FramesOnly(segs))))

C3_Witness ==
  /\ FramesAndGarbage(segs) /\ Fed /\ singleCall /\ StartsOnlyAtFrames
  /\ Len(segs) = 3 /\ segs[1].k = "garbage" /\ segs[3].k = "garbage"
  /\ Len(delivered) = 1

\* a complete frame of the stream, other than the one at m, whose span
\* overlaps the span [m, m + size)
ValidFramingAt(p) ==
  /\ p + META_OFFSET_DATA <= Len(input)
  /\ ~lessThanUInt32BEPlus(Len(input), input, p + META_OFFSET_LENGTH, p + META_OFFSET_DATA)
OverlappedByFraming(m, size) ==
  \E p \in StartsIn(input) \ {m} :
    /\ ValidFramingAt(p)
    /\ p < m + size
    /\ lessThanUInt32BEPlus(m, input, p + META_OFFSET_LENGTH, p + META_OFFSET_DATA)
StartInside(m, size) == StartsIn(input) \cap ((m + 1)..(m + size - 1)) # {}

\* C4 as stated: a framing M in the stream that no further valid framing
\* overlaps is delivered, whatever the chunking.
C4_FramingDelivered ==
  \A i \in FrameIdx(segs) :
    (Fed /\ ~OverlappedByFraming(SegStart(segs, i), Len(SegBytes(segs[i]))))
      => \E j \in 1..Len(delivered) : delivered[j].raw = SegBytes(segs[i])

\* C4 amended: ... and in whose span no START_SEQUENCE begins after its own
\* is delivered, whatever the chunking (and from M's place in the stream).
C4_CleanFramingDelivered ==
  \A i \in FrameIdx(segs) :
    (/\ Fed
     /\ ~OverlappedByFraming(SegStart(segs, i), Len(SegBytes(segs[i])))
     /\ ~StartInside(SegStart(segs, i), Len(SegBytes(segs[i]))))
      => \E j \in 1..Len(delivered) :
           delivered[j] = [raw |-> SegBytes(segs[i]), at |-> SegStart(segs, i)]

C4_Witness ==
  /\ Fed /\ ~singleCall
  /\ Len(segs) = 3 /\ segs[1].k = "garbage" /\ segs[2].k = "frame" /\ segs[3].k = "garbage"
  /\ ~OverlappedByFraming(SegStart(segs, 2), Len(SegBytes(segs[2])))
  /\ ~StartInside(SegStart(segs, 2), Len(SegBytes(segs[2])))
  /\ delivered = <<[raw |-> SegBytes(segs[2]), at |-> SegStart(segs, 2)]>>

IsAborted == Len(segs) = 2 /\ segs[1].k = "partial" /\ segs[2].k = "frame"

\* C5 as stated: a proper prefix of a frame followed by a complete frame, in
\* one parseData input: no Message for the prefix, the complete frame once.
C5_AbortedPartialAnyFrame ==
  (IsAborted /\ Fed /\ singleCall)
    => delivered = <<[raw |-> SegBytes(segs[2]), at |-> segs[1].cut]>>

\* C5 amended: ... when neither the prefix nor the complete frame holds a
\* START_SEQUENCE after its own first four bytes.
C5_AbortedPartial ==
  (IsAborted /\ Fed /\ singleCall /\ StartsIn(input) = {0, segs[1].cut})
    => delivered = <<[raw |-> SegBytes(segs[2]), at |-> segs[1].cut]>>

C5_Witness ==
  /\ IsAborted /\ Fed /\ singleCall /\ StartsIn(input) = {0, segs[1].cut}
  /\ segs[1].cut = 12
  /\ delivered = <<[raw |-> SegBytes(segs[2]), at |-> 12]>>

\* C6 as stated: n complete frames in one parseData call: the handler is
\* called n times, once per frame, in the order of the frames.
C6_BatchedAnyFrames ==
  (AllFrames(segs) /\ Fed /\ singleCall) => Raws(delivered) = FrameRaws(segs)

\* C6 amended: ... when no frame holds a START_SEQUENCE after its first four
\* bytes.
C6_BatchedFrames ==
  (AllFrames(segs) /\ Fed /\ singleCall /\ StartsOnlyAtFrames)
    => /\ Raws(delivered) = FrameRaws(segs)
       /\ \A j \in 1..Len(delivered) : delivered[j].at = SegStart(segs, j)

C6_Witness ==
  /\ AllFrames(segs) /\ Fed /\ singleCall /\ StartsOnlyAtFrames
  /\ Len(segs) = 3 /\ segs[1] # segs[2]
  /\ Len(delivered) = 3

(***************************************************************************)
(* Claims about the request/reply engine (specification Spec).             *)
(***************************************************************************)
Settled(t) == txs[t].signals # <<>>
Outcome(t) == txs[t].signals[1]
LastIn(box) == box[Len(box)]

\* C7: whenever the promise returned by sendRequest resolves, it resolves
\* with an inbound REPLY Message whose id is the id of the REQUEST sent.
C7_ResolvesWithMatchingReply ==
  \A t \in 1..Len(txs) :
    (txs[t].api = "sendRequest" /\ Settled(t) /\ Outcome(t).kind = "resolve")
      => /\ Outcome(t).by = "reply"
         /\ MsgType(Outcome(t).raw) = TYPE_REPLY
         /\ MsgId(Outcome(t).raw) = txs[t].id

\* C8: when an inbound ERROR with id i arrives while a sendRequest with id i
\* is pending, that call's promise rejects with an Error whose message is the
\* ERROR frame's payload decoded as text.
C8_ErrorRejectsPending ==
  [][(Len(inbox') = Len(inbox) + 1 /\ MsgType(LastIn(inbox')) = TYPE_ERROR)
       => \A t \in 1..Len(txs) :
            (/\ txs[t].api = "sendRequest"
             /\ txs[t].id = MsgId(LastIn(inbox'))
             /\ ~Settled(t))
              => txs'[t].signals =
                   <<Rejected("error", 0, "Error", MsgData(LastIn(inbox')))>>]_vars

\* C9: a request that was written to a port that reported no error, and for
\* which no REPLY or ERROR with its id has arrived, settles in one way only:
\* its promise rejects with TimeoutError('timeout reached').
Answered(t) ==
  \E k \in (txs[t].seen + 1)..Len(inbox) :
    /\ MsgType(inbox[k]) \in {TYPE_REPLY, TYPE_ERROR}
    /\ MsgId(inbox[k]) = txs[t].id
C9_UnansweredTimesOut ==
  \A t \in 1..Len(txs) :
    (/\ txs[t].api = "sendRequest" /\ txs[t].write = "done" /\ failures = 0
     /\ Settled(t) /\ ~Answered(t))
      => Outcome(t) = Rejected("timeout", t, "TimeoutError", TimeoutReached)

\* C10: over any interleaving of inbound messages, write completions and
\* failures and timer fires, no transaction registered by send is signalled
\* more than one outcome, and a transaction that awaits an answer is
\* signalled nothing but a reply, an error reply, its timeout or a transport
\* failure.
C10_ExactlyOneOutcome ==
  \A t \in 1..Len(txs) :
    /\ Len(txs[t].signals) <= 1
    /\ (txs[t].type # TYPE_REPLY /\ Settled(t))
         => Outcome(t).by \in {"reply", "error", "timeout", "transport"}

InTable(tab, t) == \E i \in DOMAIN tab : tab[i] = t
Unsettled(t) == txs[t].signals = <<>> /\ txs[t].timer = "armed"

\* C11: on every path that signals a transaction's completion the transaction
\* has left the table when its resolve/reject is invoked, and no transaction's
\* resolve/reject is invoked more than once.
C11_RemovedBeforeSignalled ==
  [][\A t \in 1..Len(txs) :
       Len(txs'[t].signals) > Len(txs[t].signals)
         => /\ ~InTable(transactions', t)
            /\ Len(txs'[t].signals) = 1]_vars

\* C12: at any instant at most one unsettled Transaction (nothing signalled
\* yet, timer still scheduled) exists for a given id.
C12_OneUnsettledPerId ==
  \A t, u \in 1..Len(txs) :
    (t # u /\ txs[t].id = txs[u].id) => ~(Unsettled(t) /\ Unsettled(u))

WriteOver(t) == txs[t].write \in {"done", "failed"}

\* C13: writes are ordered by send call order: a chunk handed to
\* transport.write follows only chunks of earlier sends and earlier chunks of
\* its own send, every earlier send has by then been written and drained or
\* has failed, and at most one _sendInParts is in progress.
C13_WritesInSendOrder ==
  /\ \A k \in 1..Len(wire) :
       /\ \A j \in 1..(k - 1) :
            \/ wire[j].tx < wire[k].tx
            \/ wire[j].tx = wire[k].tx /\ wire[j].from + wire[j].len = wire[k].from
                 /\ j = k - 1
       /\ \A u \in 1..(wire[k].tx - 1) : WriteOver(u)
  /\ Cardinality({t \in 1..Len(txs) : txs[t].write = "started"}) <= 1
  /\ \A t \in 1..Len(txs) : txs[t].write = "started" <=> writing.tx = t

\* three sends, the first of them a request of two chunks, the other two
\* answers to frames of the peer: all four chunks have been handed over
C13_Witness ==
  /\ Len(txs) = 3
  /\ Len(wire) = 4
  /\ wire[2].from = CHUNK_SIZE
  /\ txs[2].seen = 1 /\ txs[3].seen = 2
  /\ txs[1].write = "done"
  /\ Len(inbox) = 2

(***************************************************************************)
(* Claims about opening, closing and reopening (specification PortSpec).   *)
(***************************************************************************)
\* the promise of the user's call k settles in this step
Becomes(k, op, state) ==
  /\ k <= Len(calls')
  /\ calls'[k].op = op
  /\ calls'[k].state = state
  /\ k <= Len(calls) => calls[k].state # state
Tapped(e) ==
  /\ portEvents'[e] = portEvents[e] + 1
  /\ taps[e] => tapCalls'[e] = tapCalls[e] + 1

\* C14: isOpen() is false before open(); when open() resolves the port is open
\* and the onOpen handler has been called; when close() resolves the port is
\* not open and the onClose handler has been called; and with a device that
\* exists, open() on a port at rest and close() on an open port do not reject.
C14_OpenThenClose ==
  [][/\ (\A k \in 1..Len(calls) : calls[k].op # "open") => ~isOpen
     /\ \A k \in 1..Len(calls') :
          /\ Becomes(k, "open", "resolved") => (port' = "open" /\ Tapped("open"))
          /\ Becomes(k, "close", "resolved") => (port' # "open" /\ Tapped("close"))
          /\ Becomes(k, "open", "rejected")
               => (device = "missing" \/ port \in {"opening", "open", "closing"})
          /\ Becomes(k, "close", "rejected") => port # "open"]_vars

\* open() and then close() on a device that is there all along, both
\* handlers set: both promises resolved, each handler called once
C14_Witness ==
  /\ calls = <<[op |-> "open", state |-> "resolved"], [op |-> "close", state |-> "resolved"]>>
  /\ taps = [open |-> TRUE, close |-> TRUE]
  /\ tapCalls = [open |-> 1, close |-> 1]
  /\ ~isOpen
  /\ unplugs = 0 /\ device = "present"

\* C15: on a path whose device does not exist, open() rejects and the onOpen
\* handler is never called; a close() that follows (the port was never open)
\* is settled by a rejection, and the onClose handler is never called.
C15_MissingPort ==
  (/\ portEvents.open = 0
   /\ Len(calls) >= 2
   /\ calls[1] = [op |-> "open", state |-> "rejected"]
   /\ calls[2].op = "close")
    => (calls[2].state = "rejected" /\ tapCalls = NoCount)

\* the reopen loop is running: an attempt is scheduled or is opening the port
LoopActive == timers > 0 \/ portOp = ReopenLoop

\* C16: after a close event handled while closing is false a reopen attempt
\* is scheduled, and every failed attempt schedules another one; so when the
\* device is there again for good, the port is eventually open again.
C16_ReopenLoop ==
  (<>[](device = "present")) => [](LoopActive => <>isOpen)

\* the port was opened by the user, lost its device, and was opened again by
\* the second attempt of the reopen loop
C16_Witness ==
  /\ calls = <<[op |-> "open", state |-> "resolved"]>>
  /\ unplugs = 1
  /\ reopenAttempts = 2
  /\ portEvents = [open |-> 2, close |-> 1]
  /\ isOpen /\ ~LoopActive

\* C17: a close event handled while closing is true schedules no reopen
\* attempt and changes no state of the engine; closing is set by close()
\* only and cleared by open() only.
C17_ExpectedClose ==
  [][/\ (portEvents'.close = portEvents.close + 1 /\ closing)
          => /\ timers' = timers
             /\ reopenAttempts' = reopenAttempts
             /\ closing' = closing
             /\ UNCHANGED <<engineVars, parserVars, taps>>
     /\ (closing' /\ ~closing) => Close
     /\ (closing /\ ~closing') => (Open \/ ReopenAttempt)]_vars

\* close() on an open port has been answered by the port's close event and
\* callback: no reopen attempt is scheduled
C17_Witness ==
  /\ closing
  /\ portEvents.close = 1
  /\ Len(calls) = 2 /\ calls[2] = [op |-> "close", state |-> "resolved"]
  /\ ~LoopActive
  /\ port = "closed"

(***************************************************************************)
(* Claims about the dispatch of inbound messages (specification Spec).     *)
(***************************************************************************)
\* the messages passed to send in answer to the inbound message number re
Answers(re, type) == {t \in 1..Len(txs) : txs[t].re = re /\ txs[t].type = type}

\* C18: when the user handler throws (or its promise rejects) for an inbound
\* REQUEST with id i, exactly one ERROR message with id i is enqueued, its
\* payload the thrown error's message, and no REPLY is enqueued for it.
C18_HandlerThrowsErrorReply ==
  \A h \in 1..Len(handled) :
    handled[h].kind = "threw"
      => /\ Cardinality(Answers(handled[h].re, TYPE_ERROR)) = 1
         /\ \A t \in Answers(handled[h].re, TYPE_ERROR) :
              /\ txs[t].id = handled[h].id
              /\ handled[h].message => MsgData(txs[t].raw) = handled[h].text
         /\ Answers(handled[h].re, TYPE_REPLY) = {}

\* C19: when the user handler returns a string for an inbound REQUEST with id
\* i, one REPLY is passed to send: its id is i, its payload the string.
C19_HandlerResultReplied ==
  \A h \in 1..Len(handled) :
    handled[h].kind = "returned"
      => /\ Cardinality(Answers(handled[h].re, TYPE_REPLY)) = 1
         /\ \A t \in Answers(handled[h].re, TYPE_REPLY) :
              /\ txs[t].id = handled[h].id
              /\ MsgId(inbox[handled[h].re]) = txs[t].id
              /\ MsgData(txs[t].raw) = handled[h].text
              /\ MsgLength(txs[t].raw) = Len(bufferFrom(handled[h].text))
         /\ Answers(handled[h].re, TYPE_ERROR) = {}

\* the handler returned 'r' for the peer's REQUEST 1 and the REPLY has been
\* written
C19_Witness ==
  \E h \in 1..Len(handled), t \in 1..Len(txs) :
    /\ handled[h] = [re |-> handled[h].re, id |-> 1, kind |-> "returned",
                     message |-> TRUE, text |-> <<114>>]
    /\ txs[t].re = handled[h].re
    /\ txs[t].write = "done"
    /\ \E k \in 1..Len(wire) : wire[k].tx = t

\* every inbound PING is answered by one empty REPLY with the PING's id, and
\* the user's handler is not called for it
PongSent ==
  \A k \in 1..Len(inbox) :
    MsgType(inbox[k]) = TYPE_PING
      => /\ Cardinality(Answers(k, TYPE_REPLY)) = 1
         /\ \A t \in Answers(k, TYPE_REPLY) :
              /\ txs[t].id = MsgId(inbox[k])
              /\ MsgLength(txs[t].raw) = 0
         /\ Answers(k, TYPE_ERROR) = {}
         /\ \A h \in 1..Len(handling) : handling[h].re # k
         /\ \A h \in 1..Len(handled) : handled[h].re # k
\* ping() sends an empty PING and registers it with the short timeout
PingRegistered ==
  \A t \in 1..Len(txs) :
    txs[t].api = "ping"
      => /\ txs[t].type = TYPE_PING
         /\ MsgLength(txs[t].raw) = 0
         /\ txs[t].timeout = PING_TIMEOUT
         /\ txs[t].re = 0
\* a ping that settled without an answer and without a transport error was
\* rejected by its timer
PingTimesOut ==
  \A t \in 1..Len(txs) :
    (/\ txs[t].api = "ping" /\ txs[t].write = "done" /\ failures = 0
     /\ Settled(t) /\ ~Answered(t))
      => Outcome(t) = Rejected("timeout", t, "TimeoutError", TimeoutReached)

\* C20: an inbound PING with id i makes the engine send an empty REPLY with id
\* i without calling the user's handler; ping() registers its PING with the
\* 500 ms timeout, the promise resolves when the REPLY with the PING's id
\* arrives before the timer has fired, and rejects with TimeoutError otherwise.
C20_PingPong ==
  [][/\ PongSent'
     /\ PingRegistered'
     /\ PingTimesOut'
     /\ (Len(inbox') = Len(inbox) + 1 /\ MsgType(LastIn(inbox')) = TYPE_REPLY)
          => \A t \in 1..Len(txs) :
               (/\ txs[t].api = "ping"
                /\ txs[t].id = MsgId(LastIn(inbox'))
                /\ Unsettled(t))
                 => txs'[t].signals = <<Resolved("reply", 0, LastIn(inbox'))>>]_vars

(***************************************************************************)
(* Claims about send, the write queue and the timers (specification Spec). *)
(***************************************************************************)
\* the queue item of transaction t completes without an error in this step
ItemCompletes(t) == txs[t].write = "started" /\ txs'[t].write = "done"
\* what is signalled to transaction t in this step
NewSignals(t) == SubSeq(txs'[t].signals, Len(txs[t].signals) + 1, Len(txs'[t].signals))

\* C21: when the queue item of a REPLY completes, its transaction is resolved
\* with the message at once; when the item of a message of another type
\* completes, its transaction stays pending, and it is settled by nothing but
\* an inbound REPLY or ERROR with its id or its timer.
C21_ReplyResolvedOnWrite ==
  [][\A t \in 1..Len(txs) :
       /\ (ItemCompletes(t) /\ Unsettled(t))
            => IF txs[t].type = TYPE_REPLY
               THEN /\ txs'[t].signals = <<Resolved("written", t, txs[t].raw)>>
                    /\ txs'[t].timer = "cleared"
               ELSE /\ txs'[t].signals = <<>>
                    /\ txs'[t].timer = "armed"
       /\ (txs[t].type # TYPE_REPLY /\ txs[t].write = "done")
            => \A k \in 1..Len(NewSignals(t)) :
                 \/ /\ NewSignals(t)[k].by \in {"reply", "error"}
                    /\ MsgId(LastIn(inbox')) = txs[t].id
                 \/ NewSignals(t)[k].by = "timeout"]_vars

\* the chunks of transaction t handed to the transport
ChunksOf(w, t) == {k \in 1..Len(w) : w[k].tx = t}
\* the queue item of transaction t fails in this step
ItemFails(t) == txs[t].write = "started" /\ txs'[t].write = "failed"
\* the error the transport reports in this step
Reported == IF writing.phase = "write" THEN WriteFailed ELSE DrainFailed

\* C22: when transport.write or transport.drain reports an error for a chunk
\* of a message, the promise that send returned for it rejects with that
\* error, its transaction is removed and its timer cancelled, and no further
\* chunk of the message is ever written.
C22_WriteErrorRejects ==
  [][\A t \in 1..Len(txs) :
       /\ (ItemFails(t) /\ Unsettled(t))
            => /\ txs'[t].signals = <<Rejected("transport", t, "Error", Reported)>>
               /\ txs'[t].timer = "cleared"
               /\ ~InTable(transactions', t)
               /\ ChunksOf(wire', t) = ChunksOf(wire, t)
       /\ txs[t].write = "failed" => ChunksOf(wire', t) = ChunksOf(wire, t)]_vars

(***************************************************************************)
(* The engine of a user who sends and registers no message handler, with   *)
(* timers that fire: a timer set by setTimeout and not cleared runs its    *)
(* callback.                                                               *)
(***************************************************************************)
SendNext ==
  \/ SendRequest
  \/ Ping
  \/ Data
  \/ WriteOk
  \/ WriteError
  \/ DrainOk
  \/ DrainError
  \/ TimerFires

SendSpec == Init /\ [][SendNext]_vars
SendLiveSpec == SendSpec /\ WF_vars(TimerFires)

\* the most transactions a behaviour registers
MaxTxs == MaxSends + MaxInbound

\* C23: every promise returned by send eventually settles, whatever the
\* transport and the peer do.
C23_EverySendSettles ==
  \A t \in 1..MaxTxs : [](Len(txs) >= t => <>(Len(txs) >= t /\ Settled(t)))

\* a written request that nobody answered was settled by its timer, next to a
\* pong that was settled by the completion of its write
C23_Witness ==
  \E t, u \in 1..Len(txs) :
    /\ txs[t].api = "sendRequest" /\ txs[t].write = "done" /\ ~Answered(t)
    /\ Settled(t) /\ Outcome(t).by = "timeout"
    /\ txs[u].api = "sendReply" /\ Settled(u) /\ Outcome(u).by = "written"

(***************************************************************************)
(* Message.nextId on its own: messages are created without an explicit id, *)
(* one after the other, by Message.create(data, type).                     *)
(***************************************************************************)
\* bound: ids allocated; two more than the counter's period
MaxAllocations == 65538
ID_MODULUS == 65536

\* Message.create(data, type): id = Message.nextId()
CreateMessage ==
  /\ allocated < MaxAllocations
  /\ nextIdCounter' = nextIdAfter(nextIdCounter)
  /\ allocated' = allocated + 1
  /\ UNCHANGED <<txs, transactions, handlerSet, handling, handled, queue, writing, wire, inbox,
                 failures>>
  /\ UNCHANGED <<parserVars, streamVars, portVars>>

IdSpec == Init /\ [][CreateMessage]_vars

MaxFlight == 2

SendRequestInFlight == sendRequest(MaxFlight)

FlightNext ==
  \/ SendRequestInFlight
  \/ Data
  \/ WriteOk
  \/ DrainOk
  \/ TimerFires

FlightSpec == Init /\ [][FlightNext]_vars

\* a REPLY or ERROR of the peer is dispatched in this step
AnswerArrives ==
  /\ Len(inbox') = Len(inbox) + 1
  /\ MsgType(LastIn(inbox')) \in {TYPE_REPLY, TYPE_ERROR}
\* what the dispatch of the answer signals
AnswerSignal ==
  IF MsgType(LastIn(inbox')) = TYPE_REPLY
  THEN Resolved("reply", 0, LastIn(inbox'))
  ELSE Rejected("error", 0, "Error", MsgData(LastIn(inbox')))

\* an answer touches no transaction of another id and settles at most one
\* transaction; without a pending transaction of its id no promise changes
\* and nothing is written
AnswersIsolated ==
  [][AnswerArrives
       => /\ \A t \in 1..Len(txs) :
               txs[t].id # MsgId(LastIn(inbox')) => txs'[t] = txs[t]
          /\ Len(txs') = Len(txs)
          /\ Cardinality({t \in 1..Len(txs) : txs'[t] # txs[t]}) <= 1
          /\ \A t \in 1..Len(txs) :
               (~Settled(t) /\ txs'[t] # txs[t]) => txs'[t].signals = <<AnswerSignal>>
          /\ \A t \in 1..Len(txs) : Settled(t) => Outcome(t)' = Outcome(t)
          /\ <<queue, writing, wire>>' = <<queue, writing, wire>>]_vars

\* C25: an inbound REPLY or ERROR with id i settles the pending transaction
\* with id i, whatever the order of the answers, and leaves every other
\* transaction and its timer unchanged; when no transaction with id i is
\* pending it changes nothing.
C25_AnswersByIdInAnyOrder ==
  [][AnswerArrives
       => /\ \A t \in 1..Len(txs) :
               txs[t].id # MsgId(LastIn(inbox')) => txs'[t] = txs[t]
          /\ \A t \in 1..Len(txs) :
               (txs[t].id = MsgId(LastIn(inbox')) /\ Unsettled(t))
                 => /\ txs'[t].signals = <<AnswerSignal>>
                    /\ txs'[t].timer = "cleared"
          /\ (\A t \in 1..Len(txs) : txs[t].id = MsgId(LastIn(inbox')) => ~Unsettled(t))
               => <<txs, transactions, queue, writing, wire>>'
                    = <<txs, transactions, queue, writing, wire>>]_vars

(***************************************************************************)
(* _sendInParts on buffers around the chunk size: a user who calls         *)
(* send(Message.create(buffer, type)) with payloads that make the frame    *)
(* one chunk, exact multiples of a chunk, and one byte less or more.       *)
(***************************************************************************)
\* bound: calls of send
MaxBuffers == 2

\* payload lengths: the frame is META_OFFSET_DATA bytes longer
BufferLengths ==
  {0, 1} \cup {k * CHUNK_SIZE - META_OFFSET_DATA + d : k \in 1..2, d \in {0 - 1, 0, 1}}
         \cup {3 * CHUNK_SIZE - META_OFFSET_DATA}
\* a payload whose bytes differ from their neighbours
PayloadOf(n) == [i \in 1..n |-> i % 251]

\* send(Message.create(buffer, Message.TYPE.REQUEST))
SendBuffer ==
  /\ UserSends < MaxBuffers
  /\ \E n \in BufferLengths :
       Commit(send(EngineState, "send", create(PayloadOf(n), TYPE_REQUEST, nextIdCounter),
                   TIMEOUT, 0))
  /\ nextIdCounter' = nextIdAfter(nextIdCounter)
  /\ allocated' = allocated + 1
  /\ UNCHANGED <<handlerSet, handling, handled, failures>>
  /\ UNCHANGED <<parserVars, streamVars, portVars>>

ChunkNext ==
  \/ SendBuffer
  \/ WriteOk
  \/ WriteError
  \/ DrainOk
  \/ DrainError

ChunkSpec == Init /\ [][ChunkNext]_vars

\* the bytes of transaction t handed to the transport so far, in the order of
\* the calls of transport.write
RECURSIVE WrittenBytes(_, _)
WrittenBytes(w, t) ==
  IF w = <<>> THEN <<>>
  ELSE (IF Head(w).tx = t
        THEN slice(txs[t].raw, Head(w).from, Head(w).from + Head(w).len)
        ELSE <<>>) \o WrittenBytes(Tail(w), t)
\* the chunks of transaction t, in the order of the calls
ChunkSeq(t) == SelectSeq(wire, LAMBDA c : c.tx = t)

\* C26: _sendInParts hands the buffer over as consecutive chunks in
\* increasing offset order, each non-empty and of at most CHUNK_SIZE bytes,
\* the next one only after the drain of the one before; what has been written
\* is a prefix of the buffer, and the whole buffer once the item is done.
C26_ChunksCoverBuffer ==
  \A t \in 1..Len(txs) :
    LET cs == ChunkSeq(t)
        raw == txs[t].raw
    IN /\ \A k \in 1..Len(cs) :
            /\ cs[k].len \in 1..CHUNK_SIZE
            /\ cs[k].from = IF k = 1 THEN 0 ELSE cs[k - 1].from + cs[k - 1].len
            /\ cs[k].from + cs[k].len <= Len(raw)
       /\ WrittenBytes(wire, t) = SubSeq(raw, 1, Len(WrittenBytes(wire, t)))
       /\ txs[t].write = "queued" => cs = <<>>
       /\ txs[t].write = "started"
            => /\ cs # <<>>
               /\ writing.tx = t
               /\ writing.from = cs[Len(cs)].from
       /\ txs[t].write = "done" => WrittenBytes(wire, t) = raw

\* frames of exactly one, two and three chunks have been written whole
C26_Witness ==
  /\ Len(txs) = 2
  /\ Len(txs[1].raw) = 2 * CHUNK_SIZE /\ txs[1].write = "done"
  /\ Len(txs[2].raw) = 3 * CHUNK_SIZE /\ txs[2].write = "done"
  /\ Len(wire) = 5
  /\ wire[5] = [tx |-> 2, from |-> 2 * CHUNK_SIZE, len |-> CHUNK_SIZE]

(***************************************************************************)
(* Claims about a failed write and the sends queued behind it              *)
(* (specification Spec).                                                   *)
(***************************************************************************)
\* when the item of t fails and another send is queued, that send's first
\* chunk is handed to the transport in the same step
QueueGoesOn ==
  [][\A t \in 1..Len(txs) :
       (ItemFails(t) /\ queue # <<>>)
         => /\ writing' = [tx |-> Head(queue), from |-> 0, phase |-> "write"]
            /\ txs'[Head(queue)].write = "started"
            /\ queue' = Tail(queue)
            /\ Len(wire') = Len(wire) + 1
            /\ wire'[Len(wire')].tx = Head(queue)
            /\ wire'[Len(wire')].from = 0]_vars

\* C27: a queue item that fails does not stall the queue: the next queued
\* send starts to be written, and the failure (like the completion) of a
\* write is signalled to the promise of the send it belongs to and to no
\* other.
C27_FailedWriteDoesNotStall ==
  [][\A t \in 1..Len(txs) :
       ItemFails(t)
         => /\ queue # <<>>
                 => /\ writing'.tx = Head(queue)
                    /\ txs'[Head(queue)].write = "started"
                    /\ wire'[Len(wire')].tx = Head(queue)
            /\ \A u \in 1..Len(txs) : u # t => txs'[u].signals = txs[u].signals]_vars

(***************************************************************************)
(* The parser with a message handler that throws.                          *)
(***************************************************************************)
ThrowInit == ParserStart /\ onMessageHandler \in HandlerKinds

ThrowSpec == ThrowInit /\ [][ParserNext]_vars

\* the chunk handed to parseData in this step
ChunkFed == SubSeq(input, pos + 1, pos')

\* C28: when the parser's message handler throws while a Message is
\* delivered, parseData does not throw, and it leaves the parser as a handler
\* that returns would: the buffer past the frame, pendingMessage cleared, the
\* frames that follow delivered.
C28_HandlerThrowSwallowed ==
  [][pos' > pos
       => LET quiet == parseDataWith("returns", buffer, pendingMessage, consumed, ChunkFed)
          IN /\ thrown' = 0
             /\ buffer' = quiet.buffer
             /\ pendingMessage' = quiet.pendingMessage
             /\ consumed' = quiet.consumed
             /\ delivered' = delivered \o quiet.out]_vars

(***************************************************************************)
(* Claims about frames of unknown type and cleared timers                  *)
(* (specification Spec).                                                   *)
(***************************************************************************)
KnownTypes == {TYPE_REQUEST, TYPE_PING, TYPE_REPLY, TYPE_ERROR}
UnknownFrames == {f \in PeerFrames : MsgType(f) \notin KnownTypes}

\* C29: a frame whose TYPE byte is none of REQUEST, PING, REPLY, ERROR is
\* parsed and delivered by the parser like any other, and its dispatch calls
\* no user handler, sends and writes nothing and leaves the transactions and
\* their table as they are.
C29_UnknownTypeDropped ==
  [][/\ \A f \in UnknownFrames :
          parseData(buffer, pendingMessage, 0, f).out = <<[raw |-> f, at |-> 0]>>
     /\ (Len(inbox') = Len(inbox) + 1 /\ LastIn(inbox') \in UnknownFrames)
          => /\ inbox' = Append(inbox, LastIn(inbox'))
             /\ <<handling, handled>>' = <<handling, handled>>
             /\ <<txs, transactions>>' = <<txs, transactions>>
             /\ <<queue, writing, wire>>' = <<queue, writing, wire>>]_vars

\* a frame of unknown type has been dispatched while a handler was set and a
\* request was pending under the frame's id
C29_Witness ==
  \E k \in 1..Len(inbox), t \in 1..Len(txs) :
    /\ inbox[k] \in UnknownFrames
    /\ handlerSet
    /\ txs[t].seen < k
    /\ txs[t].id = MsgId(inbox[k])
    /\ InTable(transactions, t)
    /\ Unsettled(t)

\* C30: removing a transaction cancels its timer: a transaction that has been
\* resolved or rejected through the table has no running timer, and no
\* TimeoutError is signalled to it afterwards.
C30_RemoveCancelsTimer ==
  \A t \in 1..Len(txs) :
    \A k \in 1..Len(txs[t].signals) :
      txs[t].signals[k].by # "timeout"
        => /\ txs[t].timer # "armed"
           /\ \A j \in (k + 1)..Len(txs[t].signals) : txs[t].signals[j].by # "timeout"

\* a request was resolved by its reply and its timer cleared, while the timer
\* of another transaction has fired
C30_Witness ==
  \E t, u \in 1..Len(txs) :
    /\ txs[t].api = "sendRequest"
    /\ Len(txs[t].signals) = 1
    /\ Outcome(t).by = "reply"
    /\ txs[t].timer = "cleared"
    /\ txs[u].timer = "fired"

(***************************************************************************)
(* The parser fed garbage of about the length of the meta info and then a  *)
(* frame, cut into chunks in every possible way: among them the cuts one,  *)
(* two and three bytes into the frame's START_SEQUENCE.                    *)
(***************************************************************************)
\* garbage without a START_SEQUENCE, ending in bytes of one or in other bytes
GarbagePad == [i \in 1..8 |-> 204]
GarbageTails ==
  {<<7>>, <<240>>, <<240, 0>>, <<240, 0, 0>>, <<0, 0, 15>>, <<15, 240>>, <<204, 7, 1, 2>>}
LongGarbage == {Garbage(GarbagePad \o tail) : tail \in GarbageTails}
SplitStreams == {<<g, f>> : g \in LongGarbage, f \in {PlainFrame, TailFrame}}

SplitInit == ParserStartOn(SplitStreams) /\ onMessageHandler = "returns"

SplitSpec == SplitInit /\ [][ParserNext]_vars

\* the chunk handed to parseData in this step, appended to the buffer
Appended == buffer \o ChunkFed

\* C31: when parseData finds no START_SEQUENCE in a buffer of at least 11
\* bytes it keeps the last 3 bytes of the buffer and nothing else, and
\* delivers nothing; and however garbage followed by a frame is cut into
\* chunks, also inside the frame's START_SEQUENCE, the frame is delivered.
C31_SplitStartRecognised ==
  [][pos' > pos
       => /\ (/\ ~pendingMessage
              /\ Len(Appended) >= META_OFFSET_DATA
              /\ indexOf(Appended, 0) = -1)
               => /\ buffer' = SubSeq(Appended, Len(Appended) - 2, Len(Appended))
                  /\ consumed' = consumed + Len(Appended) - 3
                  /\ ~pendingMessage'
                  /\ delivered' = delivered
          /\ Fed' => delivered' = <<[raw |-> SegBytes(segs[2]), at |-> SegStart(segs, 2)]>>]_vars

\* a chunk has ended two bytes into the frame's START_SEQUENCE: of the 14
\* bytes received the parser has kept the last three, two of them the
\* frame's
C31_Witness ==
  /\ segs[1] = Garbage(GarbagePad \o <<204, 7, 1, 2>>)
  /\ pos = SegStart(segs, 2) + 2
  /\ consumed = pos - 3
  /\ buffer = <<2, 240, 0>>
  /\ ~pendingMessage
  /\ delivered = <<>>

(***************************************************************************)
(* The while loop of parseData, one iteration per step: a parser in any    *)
(* state (any buffer, pending or not, any handler) is handed a stream in   *)
(* chunks; each call appends its chunk and then runs the loop.             *)
(***************************************************************************)
\* buffers a parser may hold when a call comes in, whether or not a sequence
\* of calls could have left them there
LoopBuffers ==
  {<<>>, <<240, 0, 15>>, SegBytes(PlainFrame), sliceFrom(SegBytes(MagicFrame), 4),
   slice(SegBytes(TailFrame), 0, 8)}

\* streams with an aborted partial frame, pairs of frames and garbage, and
\* three frames in a row, one of them with START_SEQUENCE as its payload
LoopStreams ==
  AbortedStreams \cup {ss \in MixedStreams : Len(ss) = 2}
    \cup {<<PlainFrame, MagicFrame, TailFrame>>}

LoopInit ==
  /\ StreamStartOn(LoopStreams)
  /\ buffer \in LoopBuffers
  /\ pendingMessage \in BOOLEAN
  /\ onMessageHandler \in HandlerKinds

\* this._buffer = Buffer.concat([this._buffer, data]), up to the loop's head
EnterParseData ==
  /\ ~parsing
  /\ \E n \in 1..(Len(input) - pos) :
       /\ buffer' = buffer \o SubSeq(input, pos + 1, pos + n)
       /\ pos' = pos + n
       /\ singleCall' = (pos = 0)
  /\ parsing' = TRUE
  /\ UNCHANGED <<pendingMessage, onMessageHandler, segs, input, consumed, delivered, thrown>>
  /\ UNCHANGED <<engineVars, portVars>>

\* the loop condition and, when it holds, the loop body, once
Iterate ==
  /\ parsing
  /\ LET r == loopStep(onMessageHandler, buffer, pendingMessage, consumed, <<>>) IN
       /\ buffer' = r.buffer
       /\ pendingMessage' = r.pendingMessage
       /\ consumed' = r.consumed
       /\ delivered' = delivered \o r.out
       /\ thrown' = IF r.thrown THEN thrown + 1 ELSE thrown
       /\ parsing' = ~r.exit
  /\ UNCHANGED <<onMessageHandler, segs, input, pos, singleCall>>
  /\ UNCHANGED <<engineVars, portVars>>

LoopNext == EnterParseData \/ Iterate

LoopSpec == LoopInit /\ [][LoopNext]_vars

\* the loop runs to its end once entered: nothing else runs inside a call
LoopLiveSpec == LoopSpec /\ WF_vars(Iterate)

\* what an iteration that stays in the loop must decrease
LoopMeasure == 2 * Len(buffer) + (IF pendingMessage THEN 0 ELSE 1)

\* C32: parseData terminates on every input and every parser state: an
\* iteration of its loop either leaves the loop, or strictly shortens the
\* buffer, or keeps its length and sets pendingMessage, which was false; so
\* every call that has entered the loop leaves it.
C32_ParseDataTerminates ==
  /\ [][(parsing /\ parsing') =>
          /\ Len(buffer') < Len(buffer) \/ (~pendingMessage /\ pendingMessage')
          /\ LoopMeasure' < LoopMeasure]_vars
  /\ (parsing ~> ~parsing)

\* one call with a whole stream has run past a partial frame that a new frame
\* aborted, and the loop goes on with that frame at the head of the buffer
C32_Witness ==
  /\ parsing
  /\ pendingMessage
  /\ segs \in AbortedStreams
  /\ pos = Len(input)
  /\ singleCall
  /\ consumed >= SegStart(segs, 2)
  /\ Len(buffer) >= META_OFFSET_DATA

(***************************************************************************)
(* Frames whose payload holds START_SEQUENCE, alone, after or before other *)
(* frames and after garbage, fed to a fresh parser in every chunking.      *)
(***************************************************************************)
\* payloads with START_SEQUENCE at their head, inside and twice, and payloads
\* that hold a whole empty frame
EmbeddedPayloads ==
  { START_SEQUENCE,
    <<109>> \o START_SEQUENCE,
    START_SEQUENCE \o <<109, 49>>,
    <<109>> \o START_SEQUENCE \o <<240>>,
    START_SEQUENCE \o START_SEQUENCE,
    create(<<>>, TYPE_REQUEST, 7),
    <<109>> \o create(<<>>, TYPE_REPLY, 7) }
EmbeddedFrames == {Frame(p, TYPE_REQUEST, 1) : p \in EmbeddedPayloads}
EmbeddedStreams ==
  UNION { { <<f>>, <<f, PlainFrame>>, <<f, TailFrame>>, <<PlainFrame, f>>,
            <<Garbage(<<0, 0, 15>>), f, PlainFrame>> } : f \in EmbeddedFrames }

EmbeddedInit == ParserStartOn(EmbeddedStreams) /\ onMessageHandler = "returns"

EmbeddedSpec == EmbeddedInit /\ [][ParserNext]_vars

\* the frame of the stream whose payload holds START_SEQUENCE, where it
\* starts, and where the first START_SEQUENCE of its payload starts
EmbeddedIdx == CHOOSE i \in 1..Len(segs) : segs[i] \in EmbeddedFrames
EmbeddedAt == SegStart(segs, EmbeddedIdx)
EmbeddedStart == EmbeddedAt + indexOf(SegBytes(segs[EmbeddedIdx]), 4)
DeliveredFrom(p) == SelectSeq(delivered, LAMBDA d : d.at >= p)

\* C33: a frame whose payload contains START_SEQUENCE is never delivered, and
\* no Message is made of any bytes before its embedded start sequence: once
\* that start sequence has arrived the parser has dropped everything before
\* it, and it parses on from there as from the start of a frame, so what it
\* delivers from there on is what a fresh parser delivers for the bytes from
\* the embedded start sequence on.
C33_EmbeddedStartAbandonsFrame ==
  /\ \A k \in 1..Len(delivered) :
       delivered[k].at < EmbeddedAt \/ delivered[k].at >= EmbeddedStart
  /\ pos >= EmbeddedStart + Len(START_SEQUENCE) =>
       /\ consumed >= EmbeddedStart
       /\ consumed = EmbeddedStart => (pendingMessage /\ startsAt(buffer, 0))
  /\ Fed => Raws(DeliveredFrom(EmbeddedStart))
              = Raws(OneShot(SubSeq(input, EmbeddedStart + 1, Len(input))))

\* the frame <m, empty REPLY frame> has been abandoned in an earlier call at
\* the frame in its payload, that frame has been delivered in its place, and
\* so has the frame that follows
C33_Witness ==
  /\ Len(segs) = 2
  /\ segs[1] = Frame(<<109>> \o create(<<>>, TYPE_REPLY, 7), TYPE_REQUEST, 1)
  /\ Fed
  /\ ~singleCall
  /\ Raws(delivered) = <<create(<<>>, TYPE_REPLY, 7), SegBytes(segs[2])>>
  /\ delivered[1].at = META_OFFSET_DATA + 1

\* the loop of a fresh parser, one iteration per step
FreshLoopInit ==
  /\ StreamStartOn(LoopStreams \cup EmbeddedStreams)
  /\ buffer = <<>>
  /\ pendingMessage = FALSE
  /\ onMessageHandler \in HandlerKinds

FreshLoopSpec == FreshLoopInit /\ [][LoopNext]_vars

\* C34: whenever pendingMessage is true, between calls of parseData and at
\* the head of every iteration of its loop, the buffer begins with the four
\* bytes of START_SEQUENCE; so the iteration that reads LENGTH (pending, at
\* least 11 bytes) reads bytes 4..8 of a buffer that begins with a start
\* sequence.
C34_PendingBufferBeginsWithStart ==
  pendingMessage => (Len(buffer) >= Len(START_SEQUENCE) /\ startsAt(buffer, 0))

\* inside a call, after a partial frame was aborted by the frame that follows
\* it: the loop is about to read the LENGTH of that frame
C34_Witness ==
  /\ segs \in AbortedStreams
  /\ parsing
  /\ pendingMessage
  /\ consumed = SegStart(segs, 2)
  /\ Len(buffer) >= META_OFFSET_DATA
  /\ readUInt32BE(buffer, META_OFFSET_LENGTH) = Len(segs[2].data)

(***************************************************************************)
(* Claims about close(), open() and the reopen loop (PortSpec).            *)
(***************************************************************************)
\* the user's last call was close()
ClosedByUser == Len(calls) > 0 /\ calls[Len(calls)].op = "close"

\* C35 as stated: once the user has called close() and not open() again,
\* nothing but a call of the user opens the port or resets closing: a step
\* that is not a call of the user neither starts to open the port nor sets
\* closing to false.
C35_NoReopenAfterClose ==
  [][(ClosedByUser /\ calls' = calls) =>
       /\ closing' = closing
       /\ port' = "opening" => port = "opening"]_vars

\* a reopen attempt fires: this.reopenAttempts++
AttemptFires == reopenAttempts' # reopenAttempts /\ reopenAttempts' # 0

\* C36 as stated: at most one reopen attempt is scheduled at any time, and a
\* reopen attempt that finds the port open schedules no further attempt.
C36_SingleReopenLoop ==
  [][/\ timers' <= 1
     /\ (isOpen /\ AttemptFires) => timers' < timers]_vars

\* C37 as stated: the close event of a close() of the user never starts the
\* reopen loop.
C37_UserCloseNeverReopens ==
  [][(port = "closing" /\ port' = "closed") => timers' = timers]_vars

(***************************************************************************)
(* The queue under a transport that calls back: every write and every      *)
(* drain ends with its callback (WriteError and DrainError are callbacks    *)
(* too, and take the turn of WriteOk and DrainOk when they happen).        *)
(***************************************************************************)
QueueLiveSpec == SendSpec /\ WF_vars(WriteOk) /\ WF_vars(DrainOk)

\* the queue item of transaction t waits behind the one being written
Queued(t) == txs[t].write = "queued"
InQueue(t) == Cardinality({k \in 1..Len(queue) : queue[k] = t}) = 1
TimedOut(t) == txs[t].timer = "fired"

AnswersTo(re) == {t \in 1..Len(txs) : txs[t].re = re}

\* C39: for each inbound REQUEST at most one message is passed to send in
\* answer to it, a REPLY or an ERROR with the request's id, never both and
\* never a second one, whatever becomes of the answer (written, write or
\* drain failed, timed out).
C39_AtMostOneAnswer ==
  \A re \in 1..Len(inbox) :
    MsgType(inbox[re]) = TYPE_REQUEST
      => /\ Cardinality(AnswersTo(re)) <= 1
         /\ \A t \in AnswersTo(re) :
              /\ txs[t].type \in {TYPE_REPLY, TYPE_ERROR}
              /\ txs[t].id = MsgId(inbox[re])

\* the REPLY to a REQUEST of the peer could not be written, its promise was
\* rejected with the transport's error, the handler is done and the queue is
\* empty: the REPLY is still the only answer
C39_Witness ==
  \E re \in 1..Len(inbox), t \in 1..Len(txs) :
    /\ MsgType(inbox[re]) = TYPE_REQUEST
    /\ AnswersTo(re) = {t}
    /\ txs[t].type = TYPE_REPLY
    /\ txs[t].write = "failed"
    /\ Settled(t) /\ Outcome(t).by = "transport" /\ Outcome(t).src = t
    /\ handling = <<>>
    /\ queue = <<>> /\ writing = Idle

\* a message was passed to send in answer to a REQUEST of the peer that has
\* the id of transaction t
PeerAnswered(t) ==
  \E u \in 1..Len(txs) :
    /\ u # t
    /\ txs[u].id = txs[t].id
    /\ txs[u].re > 0
    /\ MsgType(inbox[txs[u].re]) = TYPE_REQUEST

\* C40 as stated: a pending sendRequest with id i stays registered when the
\* engine answers the peer's request i, and the peer's REPLY with id i that
\* arrives before its timeout resolves it.
C40_AnswerKeepsLocalRequest ==
  [][\A t \in 1..Len(txs) :
       (/\ txs[t].api = "sendRequest"
        /\ Unsettled(t)
        /\ PeerAnswered(t)
        /\ Len(inbox') = Len(inbox) + 1
        /\ MsgType(LastIn(inbox')) = TYPE_REPLY
        /\ MsgId(LastIn(inbox')) = txs[t].id)
         => /\ InTable(transactions, t)
            /\ txs'[t].signals = <<Resolved("reply", 0, LastIn(inbox'))>>]_vars

==============================================================================
